---- MODULE Spec2Model ----
(***************************************************************************)
(* Model of web.exercise2.py: the address book (Directory), its validated  *)
(* fields, the birthday calculator, the seven commands and the main loop   *)
(* that wraps each command in input_error and save_on_change.              *)
(*                                                                         *)
(* A string is a sequence of one-character strings.  The character "sup2"  *)
(* stands for U+00B2 SUPERSCRIPT TWO, for which str.isdigit() is True but  *)
(* which is not a decimal digit and is not matched by \d.                  *)
(***************************************************************************)
EXTENDS Integers, Sequences, FiniteSets, TLC

VARIABLES book, saved, saveCount, command, args, result, today, pc

vars == <<book, saved, saveCount, command, args, result, today, pc>>

\* ------------------------------------------------------------------ bounds
\* Largest number of phones held by the whole Directory (Add is not taken
\* beyond it).
MaxPhones == 2

\* ------------------------------------------------------------- characters
DecimalDigits == {"0", "1", "2", "3", "4", "5", "6", "7", "8", "9"}

\* Characters c with c.isdigit(): decimal digits and digits with special
\* handling such as the superscript digits.
IsDigitChars == DecimalDigits \cup {"sup2"}

DigitValue ==
  ("0" :> 0) @@ ("1" :> 1) @@ ("2" :> 2) @@ ("3" :> 3) @@ ("4" :> 4) @@
  ("5" :> 5) @@ ("6" :> 6) @@ ("7" :> 7) @@ ("8" :> 8) @@ ("9" :> 9)

DigitChar ==
  (0 :> "0") @@ (1 :> "1") @@ (2 :> "2") @@ (3 :> "3") @@ (4 :> "4") @@
  (5 :> "5") @@ (6 :> "6") @@ (7 :> "7") @@ (8 :> "8") @@ (9 :> "9")

\* str.isdigit(): non-empty and every character is a digit character.
isdigit(s) == Len(s) > 0 /\ \A i \in 1..Len(s) : s[i] \in IsDigitChars

\* int(s) for a string of decimal digits.
RECURSIVE int(_)
int(s) == IF Len(s) = 0 THEN 0
          ELSE 10 * int(SubSeq(s, 1, Len(s) - 1)) + DigitValue[s[Len(s)]]

\* ------------------------------------------------------------ exceptions
\* An exception carries its message and the value interpolated into it
\* (the empty string when the message is a constant).
NoException == "none"
Raise(msg, subj) == [raised |-> TRUE, message |-> msg, subject |-> subj]
NoRaise == [raised |-> FALSE, message |-> NoException, subject |-> <<>>]

\* ------------------------------------------------------------------ Phone
\* Phone.__init__: ValueError unless value.isdigit() and len(value) == 10.
Phone(value) ==
  IF ~(isdigit(value) /\ Len(value) = 10)
  THEN Raise("Phone number must be a string of 10 digits", <<>>)
  ELSE NoRaise

\* ------------------------------------------------------- calendar (datetime)
is_leap(y) == y % 4 = 0 /\ (y % 100 # 0 \/ y % 400 = 0)

days_in_month(y, m) ==
  IF m = 2 THEN (IF is_leap(y) THEN 29 ELSE 28)
  ELSE IF m \in {4, 6, 9, 11} THEN 30 ELSE 31

days_before_year(y) ==
  (y - 1) * 365 + ((y - 1) \div 4) - ((y - 1) \div 100) + ((y - 1) \div 400)

RECURSIVE days_before_month(_, _)
days_before_month(y, m) ==
  IF m = 1 THEN 0 ELSE days_before_month(y, m - 1) + days_in_month(y, m - 1)

\* datetime.toordinal(): 01.01.0001 is day 1.
toordinal(d) == days_before_year(d.year) + days_before_month(d.year, d.month) + d.day

\* datetime.weekday(): Monday is 0, Sunday is 6.
weekday(d) == (toordinal(d) + 6) % 7

\* The date with a given ordinal (datetime.fromordinal).
fromordinal(n) ==
  LET y == CHOOSE yy \in (n \div 366)..((n \div 365) + 1) :
             yy >= 1 /\ days_before_year(yy) < n /\ n <= days_before_year(yy + 1)
      m == CHOOSE mm \in 1..12 :
             /\ days_before_month(y, mm) < n - days_before_year(y)
             /\ n - days_before_year(y) <= days_before_month(y, mm) + days_in_month(y, mm)
  IN [year |-> y, month |-> m,
      day |-> n - days_before_year(y) - days_before_month(y, m)]

\* A datetime: a date and the seconds elapsed since its midnight.
DateTime(y, m, d, s) == [year |-> y, month |-> m, day |-> d, second |-> s]

\* a < b on datetimes: by date, then by time of day.
Before(a, b) ==
  \/ toordinal(a) < toordinal(b)
  \/ toordinal(a) = toordinal(b) /\ a.second < b.second

\* (a - b).days: timedelta normalises its seconds into 0..86399, so days is
\* the floor of the difference.
DaysBetween(a, b) ==
  IF a.second >= b.second
  THEN toordinal(a) - toordinal(b)
  ELSE toordinal(a) - toordinal(b) - 1

\* dt + timedelta(days=n)
AddDays(dt, n) ==
  LET d == fromordinal(toordinal(dt) + n)
  IN DateTime(d.year, d.month, d.day, dt.second)

\* datetime.replace(year=y): ValueError when the day does not exist in y.
ReplaceYear(dt, y) ==
  IF dt.day > days_in_month(y, dt.month)
  THEN [raised |-> TRUE, message |-> "day is out of range for month", value |-> dt]
  ELSE [raised |-> FALSE, message |-> NoException,
        value |-> DateTime(y, dt.month, dt.day, dt.second)]

\* ----------------------------------------------- strptime(value, "%d.%m.%Y")
Dots(s) == {i \in 1..Len(s) : s[i] = "."}

AllDecimal(s) == \A i \in 1..Len(s) : s[i] \in DecimalDigits

\* %d : 3[0-1] | [1-2]\d | 0[1-9] | [1-9] | " "[1-9]
IsDayText(s) ==
  \/ Len(s) = 2 /\ s[1] = "3" /\ s[2] \in {"0", "1"}
  \/ Len(s) = 2 /\ s[1] \in {"1", "2"} /\ s[2] \in DecimalDigits
  \/ Len(s) = 2 /\ s[1] \in {"0", " "} /\ s[2] \in DecimalDigits \ {"0"}
  \/ Len(s) = 1 /\ s[1] \in DecimalDigits \ {"0"}

\* %m : 1[0-2] | 0[1-9] | [1-9]
IsMonthText(s) ==
  \/ Len(s) = 2 /\ s[1] = "1" /\ s[2] \in {"0", "1", "2"}
  \/ Len(s) = 2 /\ s[1] = "0" /\ s[2] \in DecimalDigits \ {"0"}
  \/ Len(s) = 1 /\ s[1] \in DecimalDigits \ {"0"}

\* %Y : \d\d\d\d
IsYearText(s) == Len(s) = 4 /\ AllDecimal(s)

StripSpace(s) == IF Len(s) > 0 /\ s[1] = " " THEN Tail(s) ELSE s

NoDate == DateTime(0, 0, 0, 0)

\* datetime.strptime(value, "%d.%m.%Y"): the whole string must match
\* day "." month "." year, and the numbers must name a real date of a year
\* from 1 on.
strptime(value) ==
  IF Cardinality(Dots(value)) # 2
  THEN [raised |-> TRUE, message |-> "does not match format", value |-> NoDate]
  ELSE
    LET p1 == CHOOSE i \in Dots(value) : \A j \in Dots(value) : i <= j
        p2 == CHOOSE i \in Dots(value) : \A j \in Dots(value) : j <= i
        dd == SubSeq(value, 1, p1 - 1)
        mm == SubSeq(value, p1 + 1, p2 - 1)
        yy == SubSeq(value, p2 + 1, Len(value))
    IN IF ~(IsDayText(dd) /\ IsMonthText(mm) /\ IsYearText(yy))
       THEN [raised |-> TRUE, message |-> "does not match format", value |-> NoDate]
       ELSE IF int(yy) < 1
       THEN [raised |-> TRUE, message |-> "year is out of range", value |-> NoDate]
       ELSE IF int(StripSpace(dd)) > days_in_month(int(yy), int(mm))
       THEN [raised |-> TRUE, message |-> "day is out of range for month", value |-> NoDate]
       ELSE [raised |-> FALSE, message |-> NoException,
             value |-> DateTime(int(yy), int(mm), int(StripSpace(dd)), 0)]

\* Two decimal digits, zero padded (%d, %m).
TwoDigits(n) == <<DigitChar[n \div 10], DigitChar[n % 10]>>

\* Four decimal digits, zero padded (%Y).
FourDigits(n) ==
  <<DigitChar[n \div 1000], DigitChar[(n \div 100) % 10],
    DigitChar[(n \div 10) % 10], DigitChar[n % 10]>>

\* datetime.strftime("%d.%m.%Y")
strftime(dt) ==
  TwoDigits(dt.day) \o <<".">> \o TwoDigits(dt.month) \o <<".">> \o FourDigits(dt.year)

\* --------------------------------------------------------------- Birthday
\* Birthday.__init__: any ValueError of strptime becomes the format error.
Birthday(value) ==
  IF strptime(value).raised
  THEN Raise("Invalid date format. Use DD.MM.YYYY", <<>>)
  ELSE NoRaise

\* ------------------------------------------------------------ PhoneManager
\* PhoneManager.add_phone: validate, then append.
add_phone(phones, phone) ==
  LET v == Phone(phone)
  IN IF v.raised
     THEN [raised |-> TRUE, message |-> v.message, subject |-> v.subject, phones |-> phones]
     ELSE [raised |-> FALSE, message |-> NoException, subject |-> <<>>,
           phones |-> Append(phones, phone)]

edit_phone_ReplacesAll(phones, old_phone, new_phone) ==
  LET v == Phone(new_phone)
  IN IF v.raised
     THEN [raised |-> TRUE, message |-> v.message, subject |-> v.subject, phones |-> phones]
     ELSE IF \A i \in 1..Len(phones) : phones[i] # old_phone
     THEN [raised |-> TRUE, message |-> "Phone {old_phone} not found",
           subject |-> old_phone, phones |-> phones]
     ELSE [raised |-> FALSE, message |-> NoException, subject |-> <<>>,
           phones |-> [i \in 1..Len(phones) |->
                         IF phones[i] = old_phone THEN new_phone ELSE phones[i]]]

\* PhoneManager.edit_phone: validate new_phone, then overwrite the value of
\* the first phone equal to old_phone; ValueError when the loop finds none.
edit_phone(phones, old_phone, new_phone) ==
  LET v == Phone(new_phone)
      matches == {i \in 1..Len(phones) : phones[i] = old_phone}
  IN IF v.raised
     THEN [raised |-> TRUE, message |-> v.message, subject |-> v.subject, phones |-> phones]
     ELSE IF matches = {}
     THEN [raised |-> TRUE, message |-> "Phone {old_phone} not found",
           subject |-> old_phone, phones |-> phones]
     ELSE LET first == CHOOSE i \in matches : \A j \in matches : i <= j
          IN [raised |-> FALSE, message |-> NoException, subject |-> <<>>,
              phones |-> [phones EXCEPT ![first] = new_phone]]

\* --------------------------------------------------------- BirthdayManager
\* BirthdayManager.__init__: birthday is None.
NoBirthday == [set |-> FALSE, value |-> <<>>]

\* BirthdayManager.add_birthday: validate, then replace the birthday.
add_birthday(birthday, value) ==
  LET v == Birthday(value)
  IN IF v.raised
     THEN [raised |-> TRUE, message |-> v.message, subject |-> v.subject,
           birthday |-> birthday]
     ELSE [raised |-> FALSE, message |-> NoException, subject |-> <<>>,
           birthday |-> [set |-> TRUE, value |-> value]]

\* ------------------------------------------------------------------ Record
\* Record.__init__: the name, no phones, no birthday.
Record(name) == [name |-> name, phones |-> <<>>, birthday |-> NoBirthday]

\* Record.__str__, kept as its three interpolated parts.
RecordStr(r) == [name |-> r.name, phones |-> r.phones, birthday |-> r.birthday]

\* ------------------------------------------------------------- AddressBook
\* The book is the dict's items in insertion order.
\* AddressBook.find: the position of the Record of that name, 0 for None.
find(b, name) ==
  IF \E i \in 1..Len(b) : b[i].name = name
  THEN CHOOSE i \in 1..Len(b) : b[i].name = name
  ELSE 0

\* AddressBook.add_record: data[name] = record.
add_record(b, record) ==
  IF find(b, record.name) = 0 THEN Append(b, record)
  ELSE [b EXCEPT ![find(b, record.name)] = record]

\* AddressBook.get_all_records
get_all_records(b) == b

\* ------------------------------------------------------ BirthdayCalculator
Saturday == 5
Sunday == 6

\* One iteration of the loop of get_upcoming_birthdays: the entry appended
\* for a record (none when it has no birthday or is outside the window), or
\* the ValueError of strptime or of replace.  saturdayShift is the number of
\* days added to a Saturday.
UpcomingEntryShifting(record, now, saturdayShift) ==
  LET none == [raised |-> FALSE, message |-> NoException, entries |-> <<>>]
      fail(msg) == [raised |-> TRUE, message |-> msg, entries |-> <<>>]
  IN IF ~record.birthday.set THEN none
     ELSE LET bday == strptime(record.birthday.value)
          IN IF bday.raised THEN fail(bday.message)
     ELSE LET this == ReplaceYear(bday.value, now.year)
          IN IF this.raised THEN fail(this.message)
     ELSE LET next == IF Before(this.value, now)
                      THEN ReplaceYear(this.value, now.year + 1)
                      ELSE this
          IN IF next.raised THEN fail(next.message)
     ELSE LET bday_this_year == next.value
              delta == DaysBetween(bday_this_year, now)
              wd == weekday(bday_this_year)
              congratulation_date ==
                IF wd = Saturday THEN AddDays(bday_this_year, saturdayShift)
                ELSE IF wd = Sunday THEN AddDays(bday_this_year, 1)
                ELSE bday_this_year
          IN IF 0 <= delta /\ delta <= 7
             THEN [raised |-> FALSE, message |-> NoException,
                   entries |-> <<[name |-> record.name,
                                  congratulation_date |-> strftime(congratulation_date)]>>]
             ELSE none

UpcomingEntry_SaturdayPlusOne(record, now) == UpcomingEntryShifting(record, now, 1)

\* Lines 114-130: a Saturday moves 2 days on, a Sunday 1 day.
UpcomingEntry(record, now) == UpcomingEntryShifting(record, now, 2)

\* BirthdayCalculator.get_upcoming_birthdays(records, today): the entries of
\* the records in order; the first exception ends the loop.
\* upcoming after one more iteration: e is what the iteration did, rest what
\* the remaining iterations do.
UpcomingAfter(e, rest) ==
  IF e.raised THEN [raised |-> TRUE, message |-> e.message, upcoming |-> <<>>]
  ELSE IF rest.raised THEN rest
  ELSE [raised |-> FALSE, message |-> NoException,
        upcoming |-> e.entries \o rest.upcoming]

RECURSIVE get_upcoming_birthdays(_, _)
get_upcoming_birthdays(records, now) ==
  IF Len(records) = 0
  THEN [raised |-> FALSE, message |-> NoException, upcoming |-> <<>>]
  ELSE UpcomingAfter(UpcomingEntry(Head(records), now),
                     get_upcoming_birthdays(Tail(records), now))

\* ---------------------------------------------------------------- results
\* What a command returns: a text with the value interpolated into it, the
\* rendered records (phone, all) and the upcoming entries (birthdays).
Result(text, subject, shown, upcoming) ==
  [error |-> FALSE, text |-> text, subject |-> subject,
   shown |-> shown, upcoming |-> upcoming]

Message(text) == Result(text, <<>>, <<>>, <<>>)

\* f"Error: {str(e)}"
ErrorResult(message, subject) ==
  [error |-> TRUE, text |-> message, subject |-> subject,
   shown |-> <<>>, upcoming |-> <<>>]

NoResult == Message("")

\* The outcome of execute: it returned a result or raised, and the book as
\* it left it.
Returned(res, b) ==
  [raised |-> FALSE, message |-> NoException, subject |-> <<>>,
   result |-> res, book |-> b]

Raised(msg, subj, b) ==
  [raised |-> TRUE, message |-> msg, subject |-> subj,
   result |-> NoResult, book |-> b]

\* ---------------------------------------------------------------- commands
AddContactCommand_ReplacesRecord(a, b) ==
  IF Len(a) # 2
  THEN Raised("Command 'add' requires 2 arguments: name and phone", <<>>, b)
  ELSE LET b1 == add_record(b, Record(a[1]))
           r == add_phone(b1[find(b1, a[1])].phones, a[2])
       IN IF r.raised THEN Raised(r.message, r.subject, b1)
          ELSE Returned(Message("Contact added."),
                        [b1 EXCEPT ![find(b1, a[1])].phones = r.phones])

\* AddContactCommand.execute
AddContactCommand(a, b) ==
  IF Len(a) # 2
  THEN Raised("Command 'add' requires 2 arguments: name and phone", <<>>, b)
  ELSE LET name == a[1]
           phone == a[2]
           b1 == IF find(b, name) = 0 THEN add_record(b, Record(name)) ELSE b
           i == find(b1, name)
           r == add_phone(b1[i].phones, phone)
       IN IF r.raised THEN Raised(r.message, r.subject, b1)
          ELSE Returned(Message("Contact added."), [b1 EXCEPT ![i].phones = r.phones])

ChangeContactCommand_ValidatesFirst(a, b) ==
  IF Len(a) # 3
  THEN Raised("Command 'change' requires 3 arguments: name, old_phone, new_phone", <<>>, b)
  ELSE IF Phone(a[3]).raised THEN Raised(Phone(a[3]).message, <<>>, b)
  ELSE IF find(b, a[1]) = 0 THEN Returned(Message("Contact not found."), b)
  ELSE LET r == edit_phone(b[find(b, a[1])].phones, a[2], a[3])
       IN IF r.raised THEN Raised(r.message, r.subject, b)
          ELSE Returned(Message("Phone number updated."),
                        [b EXCEPT ![find(b, a[1])].phones = r.phones])

\* ChangeContactCommand.execute
ChangeContactCommand(a, b) ==
  IF Len(a) # 3
  THEN Raised("Command 'change' requires 3 arguments: name, old_phone, new_phone", <<>>, b)
  ELSE LET name == a[1]
           old_phone == a[2]
           new_phone == a[3]
           i == find(b, name)
       IN IF i = 0 THEN Returned(Message("Contact not found."), b)
          ELSE LET r == edit_phone(b[i].phones, old_phone, new_phone)
               IN IF r.raised THEN Raised(r.message, r.subject, b)
                  ELSE Returned(Message("Phone number updated."),
                                [b EXCEPT ![i].phones = r.phones])

\* ShowPhoneCommand.execute
ShowPhoneCommand(a, b) ==
  IF Len(a) # 1
  THEN Raised("Command 'phone' requires 1 argument: name", <<>>, b)
  ELSE LET i == find(b, a[1])
       IN IF i = 0 THEN Returned(Message("Contact not found."), b)
          ELSE Returned(Result("{record}", <<>>, <<RecordStr(b[i])>>, <<>>), b)

ShowAllCommand_ChecksArity(a, b) ==
  IF Len(a) # 0 THEN Raised("Command 'all' requires 0 arguments", <<>>, b)
  ELSE IF Len(b) = 0 THEN Returned(Message("No contacts found."), b)
  ELSE Returned(Result("{records}", <<>>, [i \in 1..Len(b) |-> RecordStr(b[i])], <<>>), b)

\* ShowAllCommand.execute: no check of len(args).
ShowAllCommand(a, b) ==
  IF Len(b) = 0 THEN Returned(Message("No contacts found."), b)
  ELSE Returned(Result("{records}", <<>>, [i \in 1..Len(b) |-> RecordStr(b[i])], <<>>), b)

\* AddBirthdayCommand.execute
AddBirthdayCommand(a, b) ==
  IF Len(a) # 2
  THEN Raised("Command 'add-birthday' requires 2 arguments: name and birthday", <<>>, b)
  ELSE LET name == a[1]
           birthday == a[2]
           i == find(b, name)
       IN IF i = 0 THEN Returned(Message("Contact not found."), b)
          ELSE LET r == add_birthday(b[i].birthday, birthday)
               IN IF r.raised THEN Raised(r.message, r.subject, b)
                  ELSE Returned(Message("Birthday added."),
                                [b EXCEPT ![i].birthday = r.birthday])

\* ShowBirthdayCommand.execute
ShowBirthdayCommand(a, b) ==
  IF Len(a) # 1
  THEN Raised("Command 'show-birthday' requires 1 argument: name", <<>>, b)
  ELSE LET i == find(b, a[1])
       IN IF i = 0 THEN Returned(Message("Contact not found."), b)
          ELSE IF ~b[i].birthday.set THEN Returned(Message("Birthday not set."), b)
          ELSE Returned(Result("{name}'s birthday: {birthday}", b[i].name,
                               <<RecordStr(b[i])>>, <<>>), b)

\* Lines 231-233: what BirthdaysCommand.execute returns for the value u of
\* get_upcoming_birthdays, whose exception it passes on.
BirthdaysOutcome(u, b) ==
  IF u.raised THEN Raised(u.message, <<>>, b)
  ELSE IF Len(u.upcoming) = 0
  THEN Returned(Message("No upcoming birthdays in the next 7 days."), b)
  ELSE Returned(Result("{upcoming}", <<>>, <<>>, u.upcoming), b)

\* BirthdaysCommand.execute: no check of len(args); now is the value of
\* datetime.today() read by get_upcoming_birthdays.
BirthdaysCommand(a, b, now) ==
  BirthdaysOutcome(get_upcoming_birthdays(get_all_records(b), now), b)

\* -------------------------------------------------------------- decorators
\* input_error: a ValueError, KeyError or IndexError becomes the returned
\* string "Error: ...".  Every exception execute raises is a ValueError.
input_error(out) ==
  IF out.raised
  THEN Returned(ErrorResult(out.message, out.subject), out.book)
  ELSE out

save_on_change_SavesBefore(out, before, snapshot) ==
  [saved |-> before, saves |-> 1, returned |-> ~out.raised]

\* save_on_change: storage.save(book) after func returned; an exception of
\* func leaves the decorator before the save.  before is the book when the
\* command started, snapshot the last one saved.
save_on_change(out, before, snapshot) ==
  IF out.raised
  THEN [saved |-> snapshot, saves |-> 0, returned |-> FALSE]
  ELSE [saved |-> out.book, saves |-> 1, returned |-> TRUE]

\* -------------------------------------------------------------- main loop
command_map ==
  {"add", "change", "phone", "all", "add-birthday", "show-birthday", "birthdays"}

\* command_map[command].execute(args, book)
execute(c, a, b, now) ==
  CASE c = "add" -> AddContactCommand(a, b)
    [] c = "change" -> ChangeContactCommand(a, b)
    [] c = "phone" -> ShowPhoneCommand(a, b)
    [] c = "all" -> ShowAllCommand(a, b)
    [] c = "add-birthday" -> AddBirthdayCommand(a, b)
    [] c = "show-birthday" -> ShowBirthdayCommand(a, b)
    [] c = "birthdays" -> BirthdaysCommand(a, b, now)

TotalPhones(b) == LET RECURSIVE Sum(_)
                      Sum(i) == IF i = 0 THEN 0 ELSE Len(b[i].phones) + Sum(i - 1)
                  IN Sum(Len(b))

\* Line 292: the result of the decorated command is printed and the loop
\* goes on; an exception that leaves the decorated command ends main.  out
\* is the outcome of input_error(execute), sv what save_on_change did.
Output(c, a, now, out, sv) ==
  /\ command' = c
  /\ args' = a
  /\ today' = now
  /\ book' = out.book
  /\ saved' = sv.saved
  /\ saveCount' = sv.saves
  /\ result' = IF sv.returned THEN out.result ELSE NoResult
  /\ pc' = IF sv.returned THEN "loop" ELSE "crashed"

\* Line 291: save_on_change(storage)(input_error(cmd.execute)) applied to
\* the outcome out of input_error(cmd.execute).
Decorated(c, a, now, out) == Output(c, a, now, out, save_on_change(out, book, saved))

\* Lines 289-292: the decorated command runs on args and book.
Dispatch(c, a, now) ==
  /\ pc = "loop"
  /\ Decorated(c, a, now, input_error(execute(c, a, book, now)))
  /\ TotalPhones(book') <= MaxPhones

\* ------------------------------------------------------------------ inputs
\* The argument tokens parse_input produces are lower-case and hold no
\* white space.
john == <<"j", "o", "h", "n">>
mary == <<"m", "a", "r", "y">>

PhoneA == <<"1", "2", "3", "4", "5", "6", "7", "8", "9", "0">>
PhoneB == <<"5", "5", "5", "5", "5", "5", "5", "5", "5", "5">>
\* ten times U+00B2
PhoneSuperscript == <<"sup2", "sup2", "sup2", "sup2", "sup2", "sup2", "sup2", "sup2", "sup2", "sup2">>
PhoneShort == <<"1", "2", "3", "4", "5", "6", "7", "8", "9">>
PhoneLetter == <<"1", "2", "3", "4", "5", "6", "7", "8", "9", "a">>

BirthdaySaturday == <<"2", "8", ".", "1", "2", ".", "1", "9", "9", "0">>
BirthdaySunday == <<"0", "5", ".", "0", "1", ".", "1", "9", "9", "0">>
BirthdayUnpadded == <<"1", ".", "1", ".", "2", "0", "0", "0">>
BirthdayLeapDay == <<"2", "9", ".", "0", "2", ".", "2", "0", "0", "0">>
BirthdayNoSuchDay == <<"3", "0", ".", "0", "2", ".", "2", "0", "0", "0">>
BirthdayDashes == <<"1", "9", "9", "0", "-", "1", "2", "-", "2", "8">>

Names == {john, mary}

\* Readings of datetime.today(): Saturday 28.12.2024 at midnight and at
\* noon, Sunday 29.12.2024 at midnight, Monday 26.02.2024 at noon.
Todays ==
  {DateTime(2024, 12, 28, 0), DateTime(2024, 12, 28, 43200),
   DateTime(2024, 12, 29, 0), DateTime(2024, 2, 26, 43200)}

\* Argument lists of the right length for each command, and some of a wrong
\* length.  Spec takes many phones and few dates, and birthdays of john only.
AddArgs ==
  {<<n, p>> : n \in Names, p \in {PhoneA, PhoneB, PhoneSuperscript, PhoneShort}}
    \cup {<<>>, <<john>>, <<john, PhoneA, PhoneB>>}
ChangeArgs ==
  {<<n, o, p>> : n \in Names, o \in {PhoneA, PhoneB}, p \in {PhoneA, PhoneB, PhoneLetter}}
    \cup {<<john>>, <<john, PhoneA>>}
ShowPhoneArgs == {<<n>> : n \in Names} \cup {<<>>, <<john, mary>>}
ShowAllArgs == {<<>>, <<john>>}
AddBirthdayArgs ==
  {<<john, d>> : d \in {BirthdaySaturday, BirthdayDashes}}
    \cup {<<john>>, <<john, BirthdaySaturday, mary>>}
ShowBirthdayArgs == {<<n>> : n \in Names} \cup {<<>>, <<john, mary>>}
BirthdaysArgs == {<<>>, <<john>>}
BirthdaysTodays == {DateTime(2024, 12, 28, 0)}

\* SpecCalendar takes few phones and many dates.
CalendarAddArgs ==
  {<<n, p>> : n \in Names, p \in {PhoneA, PhoneLetter}} \cup {<<john>>}
CalendarChangeArgs ==
  {<<n, PhoneA, p>> : n \in Names, p \in {PhoneA, PhoneLetter}} \cup {<<john>>}
CalendarAddBirthdayArgs ==
  {<<n, d>> : n \in Names,
              d \in {BirthdaySaturday, BirthdaySunday, BirthdayUnpadded,
                     BirthdayLeapDay, BirthdayNoSuchDay, BirthdayDashes}}
    \cup {<<john>>}

\* ------------------------------------------------------------------- Init
\* storage.load() with no file: an empty AddressBook; nothing was printed.
Init ==
  /\ book = <<>>
  /\ saved = <<>>
  /\ saveCount = 0
  /\ command = ""
  /\ args = <<>>
  /\ result = NoResult
  /\ today = NoDate
  /\ pc = "loop"

\* ---------------------------------------------------------------- actions
Add == \E a \in AddArgs : Dispatch("add", a, NoDate)

Change == \E a \in ChangeArgs : Dispatch("change", a, NoDate)

ShowPhone == \E a \in ShowPhoneArgs : Dispatch("phone", a, NoDate)

ShowAll == \E a \in ShowAllArgs : Dispatch("all", a, NoDate)

AddBirthday == \E a \in AddBirthdayArgs : Dispatch("add-birthday", a, NoDate)

ShowBirthday == \E a \in ShowBirthdayArgs : Dispatch("show-birthday", a, NoDate)

Birthdays == \E a \in BirthdaysArgs, now \in BirthdaysTodays : Dispatch("birthdays", a, now)

\* Lines 285-288 and 293-294: a line that is answered without a command.
Chat ==
  /\ pc = "loop"
  /\ \E c \in {"", "hello", "remove"} :
       /\ command' = c
       /\ result' = Message(CASE c = "" -> "Please enter a command."
                              [] c = "hello" -> "How can I help you?"
                              [] OTHER -> "Invalid command.")
  /\ args' = <<>>
  /\ today' = NoDate
  /\ saveCount' = 0
  /\ UNCHANGED <<book, saved, pc>>

\* Lines 281-284: close or exit saves the book and leaves the loop.
Close ==
  /\ pc = "loop"
  /\ command' \in {"close", "exit"}
  /\ args' = <<>>
  /\ today' = NoDate
  /\ result' = Message("Good bye!")
  /\ saved' = book
  /\ saveCount' = 1
  /\ pc' = "exited"
  /\ UNCHANGED book

Next ==
  \/ Add
  \/ Change
  \/ ShowPhone
  \/ ShowAll
  \/ AddBirthday
  \/ ShowBirthday
  \/ Birthdays
  \/ Chat
  \/ Close

Spec == Init /\ [][Next]_vars

\* The same commands on the inputs of SpecCalendar.
CalendarAdd == \E a \in CalendarAddArgs : Dispatch("add", a, NoDate)

CalendarChange == \E a \in CalendarChangeArgs : Dispatch("change", a, NoDate)

CalendarAddBirthday == \E a \in CalendarAddBirthdayArgs : Dispatch("add-birthday", a, NoDate)

CalendarBirthdays == \E now \in Todays : Dispatch("birthdays", <<>>, now)

NextCalendar ==
  \/ CalendarAdd
  \/ CalendarChange
  \/ ShowPhone
  \/ ShowAll
  \/ CalendarAddBirthday
  \/ ShowBirthday
  \/ CalendarBirthdays
  \/ Chat
  \/ Close

SpecCalendar == Init /\ [][NextCalendar]_vars

\* ================================================================== claims
Range(q) == {q[k] : k \in 1..Len(q)}

ValuesOf(f) == {f[k] : k \in DOMAIN f}

NameSet(b) == {b[k].name : k \in 1..Len(b)}

\* The arity the claims give each command.
Arity ==
  ("add" :> 2) @@ ("change" :> 3) @@ ("phone" :> 1) @@ ("all" :> 0) @@
  ("add-birthday" :> 2) @@ ("show-birthday" :> 1) @@ ("birthdays" :> 0)

\* C1: every stored phone is a string of exactly 10 decimal digits and every
\* stored birthday passes the DD.MM.YYYY calendar-date validation.
C1_StoredValuesValidated ==
  \A i \in 1..Len(book) :
    /\ \A j \in 1..Len(book[i].phones) :
         Len(book[i].phones[j]) = 10 /\ AllDecimal(book[i].phones[j])
    /\ book[i].birthday.set => ~strptime(book[i].birthday.value).raised

\* C2: a command of the dispatch table, whether it returned normally or as
\* a handled error, saves the Directory exactly once after it ran, so the
\* saved snapshot equals the Directory whenever the next command is awaited.
C2_SavedOncePerCommand ==
  /\ command \in command_map => pc = "loop" /\ saveCount = 1
  /\ pc = "loop" => saved = book

\* A handled error that had changed the Directory was saved.
C2_Witness ==
  /\ command \in command_map
  /\ result.error
  /\ pc = "loop"
  /\ saveCount = 1
  /\ Len(saved) > 0

ArityMessage ==
  ("add" :> "Command 'add' requires 2 arguments: name and phone") @@
  ("change" :> "Command 'change' requires 3 arguments: name, old_phone, new_phone") @@
  ("phone" :> "Command 'phone' requires 1 argument: name") @@
  ("add-birthday" :> "Command 'add-birthday' requires 2 arguments: name and birthday") @@
  ("show-birthday" :> "Command 'show-birthday' requires 1 argument: name")

NextOccurrence(b, now) ==
  LET candidates ==
        {toordinal(DateTime(y, b.month, b.day, 0)) :
           y \in {yy \in now.year..(now.year + 8) : b.day <= days_in_month(yy, b.month)}}
      onOrAfter == {n \in candidates : n >= toordinal(now)}
  IN CHOOSE n \in onOrAfter : \A k \in onOrAfter : n <= k

Listed(name) == \E k \in 1..Len(result.upcoming) : result.upcoming[k].name = name

\* C4: Birthdays, run at any moment of day D, lists a contact with a birthday
\* exactly when the next occurrence of its day and month on or after D is 0
\* to 7 calendar days after D.
C4_WindowByCalendarDay ==
  (command = "birthdays" /\ ~result.error) =>
    \A i \in 1..Len(book) :
      book[i].birthday.set =>
        LET delta == NextOccurrence(strptime(book[i].birthday.value).value, today)
                       - toordinal(today)
        IN Listed(book[i].name) <=> (0 <= delta /\ delta <= 7)

\* C5: a reported congratulation date is the upcoming occurrence of the
\* birthday when that is a Monday to Friday, 2 days later when it is a
\* Saturday and 1 day later when it is a Sunday; it is never a Saturday or
\* Sunday.
C5_WeekendShift ==
  (command = "birthdays" /\ ~result.error) =>
    \A k \in 1..Len(result.upcoming) :
      LET e == result.upcoming[k]
          b == strptime(book[find(book, e.name)].birthday.value).value
          c == strptime(e.congratulation_date)
      IN /\ ~c.raised
         /\ weekday(c.value) \notin {5, 6}
         /\ \E shift \in 0..2 :
              LET occ == fromordinal(toordinal(c.value) - shift)
              IN /\ occ.month = b.month /\ occ.day = b.day
                 /\ toordinal(occ) >= toordinal(today)
                 /\ occ.year \in {today.year, today.year + 1}
                 /\ shift = (CASE weekday(occ) = 5 -> 2
                               [] weekday(occ) = 6 -> 1
                               [] OTHER -> 0)

\* A birthday on Saturday 28.12.2024 is reported for Monday 30.12.2024.
C5_Witness ==
  /\ command = "birthdays"
  /\ ~result.error
  /\ \E k \in 1..Len(result.upcoming) :
       /\ result.upcoming[k].congratulation_date
            = <<"3", "0", ".", "1", "2", ".", "2", "0", "2", "4">>
       /\ book[find(book, result.upcoming[k].name)].birthday.value = BirthdaySaturday

\* C6: Change on an existing contact fails without mutation when the new
\* phone is invalid, fails with phone-not-found without mutation when no
\* stored phone equals old, and otherwise replaces exactly the first phone
\* equal to old, leaving length, positions and all other entries as they were.
C6_EditFirstMatch ==
  [][(command' = "change" /\ Len(args') = 3 /\ find(book, args'[1]) # 0) =>
       LET i == find(book, args'[1])
           before == book[i].phones
           old == args'[2]
           new == args'[3]
           first == CHOOSE f \in 1..Len(before) :
                      before[f] = old /\ \A j \in 1..(f - 1) : before[j] # old
       IN /\ Phone(new).raised => (result'.error /\ book' = book)
          /\ (~Phone(new).raised /\ old \notin Range(before)) =>
               /\ result' = ErrorResult("Phone {old_phone} not found", old)
               /\ book' = book
          /\ (~Phone(new).raised /\ old \in Range(before)) =>
               /\ ~result'.error
               /\ book' = [book EXCEPT ![i].phones =
                             [j \in 1..Len(before) |->
                                IF j = first THEN new ELSE before[j]]]]_vars

\* The first of two equal phones was replaced and the second kept.
C6_Witness ==
  /\ command = "change"
  /\ Len(args) = 3
  /\ ~result.error
  /\ args[2] # args[3]
  /\ \E i \in 1..Len(book) :
       book[i].name = args[1] /\ book[i].phones = <<args[3], args[2]>>

\* C7: a Record enters the Directory only through a successful Add: an Add
\* of a new name with an invalid phone returns an error and leaves the set
\* of names as it was; no command removes a name.
C7_NamesOnlyBySuccessfulAdd ==
  [][/\ NameSet(book) \subseteq NameSet(book')
     /\ NameSet(book') # NameSet(book) => (command' = "add" /\ ~result'.error)
     /\ (command' = "add" /\ Len(args') = 2 /\ find(book, args'[1]) = 0
           /\ Phone(args'[2]).raised)
          => (result'.error /\ NameSet(book') = NameSet(book))]_vars

\* C8: Add with a valid phone returns "Contact added." whether or not the
\* name existed; the Record of the name has its previous phones (none for a
\* new name) with the phone appended last, its birthday is unchanged, and
\* every other Record is unchanged.
C8_AddAppends ==
  [][(command' = "add" /\ Len(args') = 2 /\ ~Phone(args'[2]).raised) =>
       LET i == find(book, args'[1])
       IN /\ result' = Message("Contact added.")
          /\ book' = IF i = 0
                     THEN Append(book, [name |-> args'[1], phones |-> <<args'[2]>>,
                                        birthday |-> NoBirthday])
                     ELSE [book EXCEPT ![i].phones = Append(@, args'[2])]]_vars

\* A second phone was added to a contact that has a birthday.
C8_Witness ==
  /\ command = "add"
  /\ Len(args) = 2
  /\ result = Message("Contact added.")
  /\ \E i \in 1..Len(book) :
       /\ book[i].name = args[1]
       /\ Len(book[i].phones) = 2
       /\ book[i].phones[2] = args[2]
       /\ book[i].birthday.set

\* C9: for a name that is not in the Directory, ShowPhone, ShowBirthday,
\* Change and AddBirthday with the right number of arguments return
\* "Contact not found." as a normal result, also when the new phone or the
\* date is invalid, and leave the Directory unchanged; ShowBirthday on a
\* contact without birthday returns "Birthday not set.".
C9_ContactNotFound ==
  [][/\ (/\ command' \in {"phone", "show-birthday", "change", "add-birthday"}
         /\ Len(args') = Arity[command']
         /\ find(book, args'[1]) = 0)
          => (result' = Message("Contact not found.") /\ book' = book)
     /\ (/\ command' = "show-birthday"
         /\ Len(args') = 1
         /\ find(book, args'[1]) # 0
         /\ ~book[find(book, args'[1])].birthday.set)
          => (result' = Message("Birthday not set.") /\ book' = book)]_vars

\* Change of an unknown name to an invalid phone answered "Contact not found.".
C9_Witness ==
  /\ command = "change"
  /\ Len(args) = 3
  /\ Phone(args[3]).raised
  /\ find(book, args[1]) = 0
  /\ result = Message("Contact not found.")

\* C10: on every Directory the commands can build, Birthdays never returns
\* an "Error:" string.
C10_BirthdaysNeverError == command = "birthdays" => ~result.error

====
